---- MODULE Spec2Model ----
(***************************************************************************)
(* BitWipers wipe engine (src/bitwipers/core/wiper.py), pattern generator  *)
(* (src/bitwipers/core/patterns.py) and certificate generator              *)
(* (src/bitwipers/crypto/certificate.py) as state machines.                *)
(*                                                                         *)
(* One DataWiper instance performs one wipe call (wipe_device or           *)
(* wipe_file) on one target while a concurrent thread may call             *)
(* cancel_operation at any moment.  The wipe call is cut at the points     *)
(* where another thread can observe or change shared state (the cancel     *)
(* flag, the WipeResult): each action below is one such stretch of code.   *)
(* The target (a file or a block device) and the progress callback are the *)
(* environment: they may fail where the operating system or the callback   *)
(* may raise.                                                              *)
(*                                                                         *)
(* Spec is the wipe engine.  SpecCert is one CertificateGenerator: it is   *)
(* constructed, issues certificates from WipeResults handed to it, and     *)
(* verifies the certificate its caller holds, which the caller may have    *)
(* changed in between.                                                     *)
(***************************************************************************)
EXTENDS Integers, Sequences, FiniteSets, TLC

(***************************************************************************)
(* Bounds of the model.                                                    *)
(***************************************************************************)
MaxSize == 3

MaxBlock == 2

\* verify_certificate calls on one certificate value.
MaxVerifies == 2

(***************************************************************************)
(* Small helpers.                                                          *)
(***************************************************************************)
Min(a, b) ==
    IF a <= b THEN a ELSE b

Max(a, b) ==
    IF a >= b THEN a ELSE b

\* bytes * n : a block of n equal bytes.
Block(fill, n) ==
    [i \in 1..n |-> fill]

\* pass_data[:n]
Take(s, n) ==
    SubSeq(s, 1, Min(n, Len(s)))

(***************************************************************************)
(* patterns.py: WipePattern and WipePatterns.get_pattern_data.             *)
(* A byte is the two hex digits of its value; "random" is a byte drawn by  *)
(* secrets.token_bytes; "orig" is a byte of the target's original content; *)
(* "fs" is a byte laid down by a quick format.                             *)
(***************************************************************************)
WipePattern ==
    {"zero_fill", "one_fill", "random", "dod_3_pass", "dod_7_pass",
     "gutmann", "nist_clear", "nist_purge"}

\* A scheme name that is not a member of the enumeration.
UnsupportedPattern ==
    "not_a_real_pattern"

dod_3_pass ==
    <<"00", "FF", "random">>

\* A faulty variant: the second all-zero pass (the verify pass) is left out.
dod_7_pass_without_verify ==
    <<"00", "FF", "92", "49", "24", "random">>

dod_7_pass ==
    <<"00", "FF", "92", "49", "24", "00", "random">>

\* A faulty variant: the zero pass comes first.
nist_purge_zeros_first ==
    <<"00", "random", "random">>

nist_purge ==
    <<"random", "00", "random">>

gutmann_patterns ==
    <<"55", "AA", "92", "49", "24", "00", "11",
      "22", "33", "44", "55", "66", "77", "88",
      "99", "AA", "BB", "CC", "DD", "EE", "FF",
      "92", "49", "24", "12", "ED", "B8", "74",
      "36", "1B", "8D", "C4", "62", "31", "18">>

\* The finite generators: the list each one walks through.
FiniteYields(p) ==
    CASE p = "dod_3_pass" -> dod_3_pass
      [] p = "dod_7_pass" -> dod_7_pass
      [] p = "nist_purge" -> nist_purge
      [] p = "gutmann" -> gutmann_patterns
      [] OTHER -> <<>>

\* The infinite generators (while True: yield block): the byte they repeat.
InfiniteFill(p) ==
    CASE p = "zero_fill" -> "00"
      [] p = "one_fill" -> "FF"
      [] p = "random" -> "random"
      [] p = "nist_clear" -> "random"

\* A faulty variant of the else branch: no raise, so the generator just ends.
UnsupportedBranchEndsQuietly ==
    [kind |-> "stop", data |-> <<>>]

\* What the else branch of get_pattern_data does: raise ValueError.
UnsupportedBranch ==
    [kind |-> "raise", data |-> <<>>]

\* The k-th next() on get_pattern_data(p, n): a block, StopIteration, or the
\* ValueError of the else branch (raised by the first next(), the function
\* being a generator).
get_pattern_data(p, n, k) ==
    IF p \in {"zero_fill", "one_fill", "random", "nist_clear"}
    THEN [kind |-> "yield", data |-> Block(InfiniteFill(p), n)]
    ELSE IF p \in {"dod_3_pass", "dod_7_pass", "nist_purge", "gutmann"}
    THEN IF k <= Len(FiniteYields(p))
         THEN [kind |-> "yield", data |-> Block(FiniteYields(p)[k], n)]
         ELSE [kind |-> "stop", data |-> <<>>]
    ELSE UnsupportedBranch

(***************************************************************************)
(* wiper.py: WipeStatus, WipeResult, and the pure parts of DataWiper.      *)
(***************************************************************************)
WipeStatus ==
    {"pending", "in_progress", "completed", "failed", "cancelled"}

Terminal ==
    {"completed", "failed", "cancelled"}

\* The path of the one target; error messages are the parts of the format
\* string, so that "names the target" and "contains 'not found'" are
\* computed from the message.
TargetPath ==
    "/target"

NoneMsg ==
    <<>>

EmptyMsg ==
    <<"">>

InvalidDeviceMsg(path) ==
    <<"Invalid or inaccessible device: ", path>>

\* A faulty variant: the message leaves the path out.
FileNotFoundMsgWithoutPath(path) ==
    <<"File ", "not found">>

FileNotFoundMsg(path) ==
    <<"File ", "not found", ": ", path>>

\* str(OSError) of a failed open() or os.remove(): errno text and file name.
OSErrorPathMsg(path) ==
    <<"[Errno 13] Permission denied: ", path>>

\* str(OSError) of a failed write, flush or fsync: no file name.
IOErrorMsg ==
    <<"[Errno 5] Input/output error">>

UnsupportedPatternMsg(p) ==
    <<"Unsupported wipe pattern: ", p>>

\* str(FileNotFoundError) of subprocess.run when the format tool is missing.
FormatToolMsg ==
    <<"[Errno 2] No such file or directory: ", "mkfs.ext4">>

\* str(e) of whatever a progress callback raises: some text, or nothing.
CallbackMsgs ==
    {<<"callback failed">>, EmptyMsg}

NamesTarget(msg, path) ==
    \E i \in 1..Len(msg) : msg[i] = path

ContainsNotFound(msg) ==
    \E i \in 1..Len(msg) : msg[i] = "not found"

NonEmptyMsg(msg) ==
    msg # NoneMsg /\ msg # EmptyMsg

\* WipeResult(device_path, pattern, status=PENDING, start_time=now()).
NewResult(path, p) ==
    [device_path |-> path,
     pattern |-> p,
     status |-> "pending",
     end_time |-> FALSE,
     bytes_wiped |-> 0,
     total_bytes |-> 0,
     passes_completed |-> 0,
     total_passes |-> 0,
     error_message |-> NoneMsg,
     verification_hash |-> <<>>]

\* A faulty variant: an empty target counts as wholly done.
ProgressPercentFullWhenEmpty(r) ==
    IF r.total_bytes = 0
    THEN 100
    ELSE Min(100, (r.bytes_wiped * 100) \div r.total_bytes)

\* A faulty variant: the percentage is not capped at 100.
progress_percent_uncapped(r) ==
    IF r.total_bytes = 0
    THEN 0
    ELSE (r.bytes_wiped * 100) \div r.total_bytes

\* WipeResult.progress_percent, rounded down to a whole percent.
progress_percent(r) ==
    IF r.total_bytes = 0
    THEN 0
    ELSE Min(100, (r.bytes_wiped * 100) \div r.total_bytes)

_get_pass_count(p) ==
    CASE p = "zero_fill" -> 1
      [] p = "one_fill" -> 1
      [] p = "random" -> 1
      [] p = "dod_3_pass" -> 3
      [] p = "dod_7_pass" -> 7
      [] p = "nist_clear" -> 1
      [] p = "nist_purge" -> 3
      [] p = "gutmann" -> 35
      [] OTHER -> 1

\* A faulty variant: the last block is not cut to what remains.
ChunkSizeUntruncated(bs, remaining) ==
    bs

\* chunk_size = min(self.block_size, remaining)
ChunkSize(bs, remaining) ==
    Min(bs, remaining)

\* The chunk handed to write(): the whole block, or its first chunk_size bytes.
Chunk(data, bs, remaining) ==
    IF ChunkSize(bs, remaining) = bs
    THEN data
    ELSE Take(data, ChunkSize(bs, remaining))

\* A faulty variant: the flag is not looked at.
cancel_check_skipped(flag) ==
    FALSE

\* "if self._cancelled: return False" at the head of a pass and of a block.
cancel_check(flag) ==
    flag

\* A faulty variant: the value _perform_wipe returned is ignored.
FinalStatusIgnoringSuccess(ok, flag) ==
    IF ~flag THEN "completed" ELSE "cancelled"

\* A faulty variant: "if success:" without the test of the flag.
FinalStatusBySuccessAlone(ok, flag) ==
    IF ok THEN "completed"
    ELSE IF flag THEN "cancelled"
    ELSE "failed"

\* The if / elif / else after _perform_wipe returns.
FinalStatus(ok, flag) ==
    IF ok /\ ~flag THEN "completed"
    ELSE IF flag THEN "cancelled"
    ELSE "failed"

\* A faulty variant: the loop over the generator never breaks.
pass_limit_ignored(number, total) ==
    FALSE

\* "if pass_number >= result.total_passes: break"
pass_limit_reached(number, total) ==
    number >= total

\* A faulty variant: the handle stays where the pass before left it.
seek_skipped(position, offset) ==
    position

\* device.seek(0) / f.seek(0): the handle's position after the call.
seek(position, offset) ==
    offset

\* A faulty variant: the target is cut off behind the block just written (a
\* handle opened with 'w+b').
WriteAtTruncating(c, p, chunk) ==
    [i \in 1..(p + Len(chunk)) |-> IF i > p THEN chunk[i - p] ELSE c[i]]

\* file.write(chunk) at offset p of content c (a file grows when written past
\* its end).
WriteAt(c, p, chunk) ==
    [i \in 1..Max(Len(c), p + Len(chunk)) |->
        IF i > p /\ i <= p + Len(chunk) THEN chunk[i - p] ELSE c[i]]

\* hashlib.sha256 over the whole target: injective on the contents here.
Sha256(c) ==
    <<"sha256", c>>

(***************************************************************************)
(* certificate.py: WipeCertificate and the pure parts of                   *)
(* CertificateGenerator.                                                   *)
(* A key pair is named by its kind and where it came from.  The hex text   *)
(* of a digest or of a signature is the value it spells together with its  *)
(* spelling, since str.__ne__ tells "ab" from "AB" and bytes.fromhex does  *)
(* not.  A signature is the signer, the signed data and the PSS salt.      *)
(* None is <<>>; an optional string s is <<s>>.                            *)
(***************************************************************************)
\* The keys of asdict(certificate) as sort_keys=True orders them.
SortedFieldNames ==
    <<"bytes_wiped", "certificate_hash", "certificate_id", "created_at",
      "device_model", "device_path", "device_serial", "device_size_bytes",
      "digital_signature", "nist_compliance", "operator", "organization",
      "passes_completed", "status", "verification_hash", "version",
      "wipe_duration_seconds", "wipe_end_time", "wipe_pattern",
      "wipe_start_time">>

FieldNames ==
    {SortedFieldNames[i] : i \in 1..Len(SortedFieldNames)}

DataFields ==
    FieldNames \ {"certificate_hash", "digital_signature"}

\* What a call returns, or that it raised.
Returned(v) ==
    [raised |-> FALSE, value |-> v]

Raised ==
    [raised |-> TRUE, value |-> FALSE]

NoKey ==
    [kind |-> "none", origin |-> "none"]

\* private_key_path: None, a path where nothing is, a PEM file holding an
\* RSA key, a PEM file holding a key of another kind (it loads; sign() with
\* PSS arguments raises), or a file load_pem_private_key cannot read.
KeyPaths ==
    {"None", "missing", "rsa_pem", "other_pem", "garbage"}

\* private_key_path and Path(private_key_path).exists()
PathGivenAndExists(path) ==
    path \in {"rsa_pem", "other_pem", "garbage"}

_load_private_key(path) ==
    CASE path = "rsa_pem" -> Returned([kind |-> "rsa", origin |-> "file"])
      [] path = "other_pem" -> Returned([kind |-> "other", origin |-> "file"])
      [] OTHER -> [raised |-> TRUE, value |-> NoKey]

\* A faulty variant: the pair is one built into the program.
_generate_private_key_fixed(held) ==
    [kind |-> "rsa", origin |-> "fresh"]

\* rsa.generate_private_key(public_exponent=65537, key_size=2048): a pair
\* from the system's randomness; no call returns a pair that an earlier one
\* returned (held: the keys that exist when it is called).
_generate_private_key(held) ==
    [kind |-> "rsa",
     origin |-> IF \E k \in held : k.origin = "fresh" THEN "fresh_again" ELSE "fresh"]

\* self.private_key.public_key(): the public half of the same pair.
PublicKeyOf(key) ==
    [kind |-> key.kind, origin |-> key.origin]

\* "" as a digest text.
EmptyText ==
    [digest |-> <<>>, spelling |-> "lower"]

\* hashlib.sha256(text.encode()).hexdigest(): no two texts share a digest.
hexdigest(text) ==
    [digest |-> text, spelling |-> "lower"]

\* b"": no signature at all.
EmptyBytes ==
    [signer |-> NoKey, data |-> EmptyText, salt |-> "none"]

\* bytes.hex(): lower-case digits.
hex(b) ==
    [bytes |-> b, spelling |-> "lower"]

\* bytes.fromhex(text): ValueError unless the text is hex digits; the case
\* of the digits does not matter.
fromhex(text) ==
    IF text.spelling \in {"lower", "upper"}
    THEN Returned(text.bytes)
    ELSE [raised |-> TRUE, value |-> EmptyBytes]

\* The salts PSS may draw.
Salts ==
    {"salt_a", "salt_b"}

\* A faulty variant: the signature is made over nothing.
_sign_data_of_nothing(key, data, salt) ==
    IF key.kind = "rsa"
    THEN Returned([signer |-> PublicKeyOf(key), data |-> EmptyText, salt |-> salt])
    ELSE [raised |-> TRUE, value |-> EmptyBytes]

\* self.private_key.sign(data, PSS(MGF1(SHA256), MAX_LENGTH), SHA256): raises
\* when the key is not an RSA key.
_sign_data(key, data, salt) ==
    IF key.kind = "rsa"
    THEN Returned([signer |-> PublicKeyOf(key), data |-> data, salt |-> salt])
    ELSE [raised |-> TRUE, value |-> EmptyBytes]

\* self.public_key.verify(...) inside try / except Exception: return False.
_verify_signature(pub, data, signature) ==
    /\ pub.kind = "rsa"
    /\ signature.signer = pub
    /\ signature.data = data

\* A faulty variant: the dictionary is the object's own attribute table.
to_dict_shared(c) ==
    [fields |-> c, shared |-> TRUE]

\* asdict(self): a new dictionary.
to_dict(c) ==
    [fields |-> c, shared |-> FALSE]

\* dict.pop(k, default): the dictionary left, and the value taken.
Pop(d, k) ==
    [f \in (DOMAIN d) \ {k} |-> d[f]]

Popped(d, k, default) ==
    IF k \in DOMAIN d THEN d[k] ELSE default

\* json.dumps(d, sort_keys=True): the key / value pairs in key order.
json_dumps(d) ==
    LET ks == SelectSeq(SortedFieldNames, LAMBDA k : k \in DOMAIN d)
    IN  [i \in 1..Len(ks) |-> <<ks[i], d[ks[i]]>>]

\* A faulty variant: certificate_hash (still "") stays in the hashed part.
cert_dict_keeping_hash(c) ==
    Pop(to_dict(c).fields, "digital_signature")

\* generate_certificate: cert_dict = cert_data.to_dict() and its two pops.
cert_dict_for_hash(c) ==
    Pop(Pop(to_dict(c).fields, "certificate_hash"), "digital_signature")

\* The values secrets.token_hex(4).upper() may return (two of the 2^32).
TokenHex ==
    {"1A2B3C4D", "5E6F7A8B"}

\* _generate_certificate_id: "BW-<timestamp>-<random_part>".  All the calls
\* of a behaviour fall within the same second.
_generate_certificate_id(random_part) ==
    <<"BW", "now", random_part>>

\* device_info: absent, or the serial number and model of the target.
DeviceInfos ==
    {[serial_number |-> <<>>, model |-> <<>>],
     [serial_number |-> <<"SN1">>, model |-> <<"M1">>]}

\* WipeCertificate(...) as generate_certificate fills it in, before the hash
\* and the signature are computed.
WipeCertificate(r, cert_id, device_info) ==
    [certificate_id |-> cert_id,
     device_path |-> r.device_path,
     device_serial |-> device_info.serial_number,
     device_model |-> device_info.model,
     device_size_bytes |-> r.total_bytes,
     wipe_pattern |-> r.pattern,
     wipe_start_time |-> "start_time",
     wipe_end_time |-> IF r.end_time THEN "end_time" ELSE "",
     wipe_duration_seconds |-> IF r.end_time THEN 1 ELSE 0,
     bytes_wiped |-> r.bytes_wiped,
     passes_completed |-> r.passes_completed,
     verification_hash |-> r.verification_hash,
     status |-> r.status,
     operator |-> "BitWipers System",
     organization |-> "Ministry of Mines - JNARDDC",
     nist_compliance |-> "NIST SP 800-88 Rev. 1",
     certificate_hash |-> EmptyText,
     digital_signature |-> hex(EmptyBytes),
     created_at |-> "now",
     version |-> "1.0"]

\* No certificate has been returned yet.
NoCertificate ==
    [f \in FieldNames |-> <<>>]

\* A faulty variant of the handler: what the body raised is raised again.
except_reraise(outcome) ==
    outcome

\* verify_certificate's "except Exception: return False".
except_Exception(outcome) ==
    IF outcome.raised THEN Returned(FALSE) ELSE outcome

\* The try body of verify_certificate on the dictionary d of the certificate.
verify_body(d, pub) ==
    LET original_hash == Popped(d, "certificate_hash", EmptyText)
        original_signature == Popped(d, "digital_signature", hex(EmptyBytes))
        cert_dict == Pop(Pop(d, "certificate_hash"), "digital_signature")
        expected_hash == hexdigest(json_dumps(cert_dict))
        signature_bytes == fromhex(original_signature)
    IN  IF original_hash # expected_hash THEN Returned(FALSE)
        ELSE IF signature_bytes.raised THEN Raised
        ELSE Returned(_verify_signature(pub, expected_hash, signature_bytes.value))

\* What verify_certificate(certificate) returns (or raises).
verify_certificate_outcome(c, pub) ==
    except_Exception(verify_body(to_dict(c).fields, pub))

\* The certificate object after verify_certificate ran on it: the two pops
\* reach it only if the dictionary is not a copy.
AfterVerify(c) ==
    IF to_dict(c).shared
    THEN Pop(Pop(c, "certificate_hash"), "digital_signature")
    ELSE c

(***************************************************************************)
(* State.                                                                  *)
(***************************************************************************)
VARIABLES
    \* DataWiper.__init__
    block_size,          \* self.block_size
    progress_callback,   \* self.progress_callback is not None
    verify_wipe,         \* self.verify_wipe
    cancelled,           \* self._cancelled
    \* the running wipe_device / wipe_file call
    pc,                  \* where the call stands
    op,                  \* "device" (wipe_device) or "file" (wipe_file)
    post,                \* quick_format (wipe_device) / remove_file (wipe_file)
    result,              \* the WipeResult
    success,             \* what _perform_wipe / _perform_file_wipe returned
    branch,              \* the branch the if / elif / else took
    gen_next,            \* next() calls made on pattern_generator
    pass_data,           \* the block of the current pass
    pass_number,
    bytes_written_pass,  \* bytes_written_pass / bytes_written (file)
    bytes_written_total,
    pos,                 \* the open handle's file position
    \* the target
    targetKind,          \* "missing", "file" (regular file) or "device"
    targetPerm,          \* at the call: "rw", "ro" (open 'r+b' fails) or "none"
    content,             \* its bytes; its size is Len(content)
    \* what happened so far in the call (history)
    written,             \* <<pass, offset>> of every byte handed to write()
    passIO,              \* bytes the target accepted in the current pass
    lastIO,              \* length of the last block written in the pass
    ended,               \* the last pass that ran to its end
    log,                 \* the flag at the call, opens, reads, write() calls, bytes
                         \* written and synced, callbacks
    faults,              \* the errors raised so far
    cancelDuring,        \* cancel_operation ran while status was in_progress
    \* CertificateGenerator and its caller
    private_key_path,    \* the constructor's argument
    generator,           \* "none", "ready", or "raised" (__init__ raised)
    private_key,         \* self.private_key
    public_key,          \* self.public_key
    wipe_result,         \* the WipeResult of the last generate_certificate call
    cert_call,           \* how that call ended: "none", "returned", "raised"
    certificate,         \* the WipeCertificate the caller holds
    tampered,            \* the fields the caller changed since it was issued
    verdicts,            \* what verify_certificate returned for this value
    other,               \* a second CertificateGenerator: its state, its key pair,
                         \* and what its verify_certificate returned
    front                \* the front-end: which one, its certificate option, its report

engineVars ==
    <<block_size, progress_callback, verify_wipe>>

frameVars ==
    <<op, post, success, branch, gen_next, pass_data, pass_number,
      bytes_written_pass, bytes_written_total, pos>>

targetVars ==
    <<targetKind, targetPerm, content>>

ioVars ==
    <<written, passIO, lastIO, ended>>

historyVars ==
    <<ioVars, log>>

\* open(path, mode) returned a handle on the target.
Opened(l) ==
    [l EXCEPT !.opens = @ + 1]

\* f.read(...) on a handle of the target returned.
ReadFrom(l) ==
    [l EXCEPT !.reads = @ + 1]

\* progress_callback(result) is entered: it sees result.bytes_wiped.
Invoked(l, wiped) ==
    [l EXCEPT !.prev = l.seen, !.seen = wiped]

wipeVars ==
    <<engineVars, cancelled, pc, result, frameVars, targetVars, historyVars,
      faults, cancelDuring>>

certVars ==
    <<private_key_path, generator, private_key, public_key, wipe_result,
      cert_call, certificate, tampered, verdicts, other>>

vars ==
    <<wipeVars, certVars, front>>

Patterns ==
    WipePattern \cup {UnsupportedPattern}

\* The call is between its first statement and its return.
Active ==
    pc \notin {"idle", "returned", "raised"}

\* progress_callback(result): returns (NoneMsg) or raises (str(e)).
CallbackOutcome ==
    IF progress_callback THEN {NoneMsg} \cup CallbackMsgs ELSE {NoneMsg}

\* except Exception as e: of wipe_device / wipe_file.
Handler(msg) ==
    [result EXCEPT !.status = "failed", !.error_message = msg, !.end_time = TRUE]

\* No front-end runs: the engine and the generator are called directly.
NoFront ==
    [kind |-> "none", certificate |-> FALSE, shown |-> "none"]

Init ==
    /\ block_size \in 1..MaxBlock
    /\ progress_callback \in BOOLEAN
    /\ verify_wipe \in BOOLEAN
    /\ cancelled = FALSE
    /\ pc = "idle"
    /\ op = "none"
    /\ post = FALSE
    /\ result = NewResult(TargetPath, "nist_clear")
    /\ success = FALSE
    /\ branch = "pending"
    /\ gen_next = 0
    /\ pass_data = <<>>
    /\ pass_number = 0
    /\ bytes_written_pass = 0
    /\ bytes_written_total = 0
    /\ pos = 0
    /\ targetKind \in {"missing", "file", "device"}
    /\ targetPerm \in {"rw", "ro", "none"}
    /\ \E size \in 0..MaxSize : content = [i \in 1..size |-> "orig"]
    /\ targetKind = "missing" => (targetPerm = "none" /\ content = <<>>)
    /\ written = {}
    /\ passIO = 0
    /\ lastIO = 0
    /\ ended = [n |-> 0, bytes |-> 0, last |-> 0]
    /\ log = [preset |-> FALSE, opens |-> 0, reads |-> 0, blocks |-> 0, bytes |-> 0, synced |-> 0,
              calls |-> 0, seen |-> 0, prev |-> 0, unsynced |-> 0]
    /\ faults = {}
    /\ cancelDuring = FALSE
    /\ private_key_path = "None"
    /\ generator = "none"
    /\ private_key = NoKey
    /\ public_key = NoKey
    /\ wipe_result = NewResult(TargetPath, "nist_clear")
    /\ cert_call = "none"
    /\ certificate = NoCertificate
    /\ tampered = {}
    /\ verdicts = <<>>
    /\ other = [generator |-> "none", private_key_path |-> "None",
                private_key |-> NoKey, public_key |-> NoKey, verdicts |-> <<>>]
    /\ front = NoFront

(***************************************************************************)
(* cancel_operation, from any thread at any moment.                        *)
(***************************************************************************)
\* A faulty variant: a second request withdraws the first.
_cancelled_toggled(flag) ==
    ~flag

\* self._cancelled = True
_cancelled_set(flag) ==
    TRUE

cancel_operation ==
    /\ cancelled' = _cancelled_set(cancelled)
    /\ cancelDuring' = (cancelDuring \/ (Active /\ result.status = "in_progress"))
    /\ UNCHANGED <<front, certVars, engineVars, pc, result, frameVars, targetVars,
                   historyVars, faults>>

(***************************************************************************)
(* wipe_device / wipe_file up to the write loop.                           *)
(***************************************************************************)
\* The call and its first statement: result = WipeResult(...).
Call(o) ==
    /\ pc = "idle"
    /\ \E p \in Patterns, flag \in BOOLEAN :
        /\ op' = o
        /\ post' = flag
        /\ result' = NewResult(TargetPath, p)
    /\ pc' = "validate"
    /\ log' = [log EXCEPT !.preset = cancelled]
    /\ UNCHANGED <<certVars, engineVars, cancelled, success, branch, gen_next, pass_data,
                   pass_number, bytes_written_pass, bytes_written_total, pos,
                   targetVars, ioVars, faults, cancelDuring>>

wipe_device ==
    Call("device") /\ UNCHANGED front

wipe_file ==
    Call("file") /\ UNCHANGED front

\* _validate_device: os.path.exists, then open(device_path, 'rb').read(1).
_validate_device ==
    targetKind # "missing" /\ targetPerm # "none"

\* if not self._validate_device(device_path): ... return result
ValidateDevice ==
    /\ pc = "validate" /\ op = "device"
    /\ IF _validate_device
       THEN /\ pc' = "size"
            /\ UNCHANGED <<result, faults>>
       ELSE /\ result' = [result EXCEPT
                             !.status = "failed",
                             !.error_message = InvalidDeviceMsg(result.device_path)]
            /\ faults' = faults \cup
                   {IF targetKind = "missing" THEN "missing" ELSE "open_read"}
            /\ pc' = "returned"
    /\ log' = IF _validate_device THEN ReadFrom(Opened(log)) ELSE log
    /\ UNCHANGED <<front, certVars, engineVars, cancelled, frameVars, targetVars,
                   ioVars, cancelDuring>>

\* if not os.path.exists(file_path) or not os.path.isfile(file_path): ...
ValidateFile ==
    /\ pc = "validate" /\ op = "file"
    /\ IF targetKind = "file"
       THEN /\ pc' = "size"
            /\ UNCHANGED <<result, faults>>
       ELSE /\ result' = [result EXCEPT
                             !.status = "failed",
                             !.error_message = FileNotFoundMsg(result.device_path)]
            /\ faults' = faults \cup {"missing"}
            /\ pc' = "returned"
    /\ UNCHANGED <<front, certVars, engineVars, cancelled, frameVars, targetVars,
                   historyVars, cancelDuring>>

\* _get_device_size: the size, or 0 when anything in it raises.
_get_device_size(raised) ==
    IF raised THEN 0 ELSE Len(content)

\* device_size = self._get_device_size(...); total_bytes, total_passes;
\* status = IN_PROGRESS.
SizeDevice ==
    /\ pc = "size" /\ op = "device"
    /\ \E raised \in BOOLEAN :
        /\ result' = [result EXCEPT
                         !.total_bytes = _get_device_size(raised),
                         !.total_passes = _get_pass_count(result.pattern),
                         !.status = "in_progress"]
        /\ faults' = IF raised THEN faults \cup {"size"} ELSE faults
    /\ pc' = "notify"
    /\ UNCHANGED <<front, certVars, engineVars, cancelled, frameVars, targetVars,
                   historyVars, cancelDuring>>

\* file_size = os.path.getsize(file_path) (an OSError goes to the handler);
\* total_bytes, total_passes; status = IN_PROGRESS.
SizeFile ==
    /\ pc = "size" /\ op = "file"
    /\ \E raised \in BOOLEAN :
        IF raised
        THEN /\ result' = Handler(OSErrorPathMsg(result.device_path))
             /\ faults' = faults \cup {"size"}
             /\ pc' = "final_notify"
        ELSE /\ result' = [result EXCEPT
                              !.total_bytes = Len(content),
                              !.total_passes = _get_pass_count(result.pattern),
                              !.status = "in_progress"]
             /\ pc' = "notify"
             /\ UNCHANGED faults
    /\ UNCHANGED <<front, certVars, engineVars, cancelled, frameVars, targetVars,
                   historyVars, cancelDuring>>

\* self._update_progress(result) right after status = IN_PROGRESS, inside the
\* try: a raising callback goes to the handler.
NotifyStart ==
    /\ pc = "notify"
    /\ \E cb \in CallbackOutcome :
        IF cb = NoneMsg
        THEN /\ pc' = IF op = "device" THEN "open" ELSE "next_pass"
             /\ UNCHANGED <<result, faults>>
        ELSE /\ result' = Handler(cb)
             /\ faults' = faults \cup {"callback"}
             /\ pc' = "final_notify"
    /\ log' = IF progress_callback THEN Invoked(log, result.bytes_wiped) ELSE log
    /\ UNCHANGED <<front, certVars, engineVars, cancelled, frameVars, targetVars,
                   ioVars, cancelDuring>>

(***************************************************************************)
(* _perform_wipe / _perform_file_wipe: the write loops.                    *)
(***************************************************************************)
\* return False / return True / except Exception: ... return False
Return(ok, msg) ==
    /\ success' = ok
    /\ result' = IF msg = NoneMsg THEN result ELSE [result EXCEPT !.error_message = msg]
    /\ pc' = "decide"

\* with open(device_path, 'r+b') as device: ... bytes_written_total = 0;
\* pass_number = 0.  A failed open is caught by _perform_wipe's except.
OpenDevice ==
    /\ pc = "open"
    /\ log' = IF targetPerm = "rw" THEN Opened(log) ELSE log
    /\ IF targetPerm = "rw"
       THEN /\ pos' = 0
            /\ gen_next' = 0
            /\ bytes_written_total' = 0
            /\ pass_number' = 0
            /\ pc' = "next_pass"
            /\ UNCHANGED <<result, success, faults>>
       ELSE /\ Return(FALSE, OSErrorPathMsg(result.device_path))
            /\ faults' = faults \cup {"open_write"}
            /\ UNCHANGED <<pos, gen_next, bytes_written_total, pass_number>>
    /\ UNCHANGED <<front, certVars, engineVars, cancelled, op, post, branch, pass_data,
                   bytes_written_pass, targetVars, ioVars, cancelDuring>>

\* The head of one turn of "for pass_data in pattern_generator:" -- next(),
\* the cancel check, pass_number += 1, passes_completed, seek(0).
NextPassDevice ==
    /\ pc = "next_pass" /\ op = "device"
    /\ LET y == get_pattern_data(result.pattern, block_size, gen_next + 1) IN
        CASE y.kind = "raise" ->
                /\ Return(FALSE, UnsupportedPatternMsg(result.pattern))
                /\ faults' = faults \cup {"unsupported"}
                /\ UNCHANGED <<gen_next, pass_data, pass_number, bytes_written_pass,
                               pos, passIO, lastIO>>
          [] y.kind = "stop" ->
                /\ Return(TRUE, NoneMsg)
                /\ UNCHANGED <<gen_next, pass_data, pass_number, bytes_written_pass,
                               pos, passIO, lastIO, faults>>
          [] y.kind = "yield" ->
                /\ gen_next' = gen_next + 1
                /\ pass_data' = y.data
                /\ IF cancel_check(cancelled)
                   THEN /\ Return(FALSE, NoneMsg)
                        /\ UNCHANGED <<pass_number, bytes_written_pass, pos,
                                       passIO, lastIO>>
                   ELSE /\ pass_number' = pass_number + 1
                        /\ result' = [result EXCEPT !.passes_completed = pass_number + 1]
                        /\ pos' = seek(pos, 0)
                        /\ bytes_written_pass' = 0
                        /\ passIO' = 0
                        /\ lastIO' = 0
                        /\ pc' = "block"
                        /\ UNCHANGED success
                /\ UNCHANGED faults
    /\ UNCHANGED <<front, certVars, engineVars, cancelled, op, post, branch,
                   bytes_written_total, targetVars, written, ended, log, cancelDuring>>

\* The head of one turn of "for pass_number, pass_data in enumerate(...)":
\* next(), the cancel check, passes_completed, open(file_path, 'r+b'), seek(0).
NextPassFile ==
    /\ pc = "next_pass" /\ op = "file"
    /\ log' = IF /\ get_pattern_data(result.pattern, block_size, gen_next + 1).kind
                      = "yield"
                 /\ ~cancel_check(cancelled)
                 /\ targetPerm = "rw"
              THEN Opened(log)
              ELSE log
    /\ LET y == get_pattern_data(result.pattern, block_size, gen_next + 1) IN
        CASE y.kind = "raise" ->
                /\ Return(FALSE, UnsupportedPatternMsg(result.pattern))
                /\ faults' = faults \cup {"unsupported"}
                /\ UNCHANGED <<gen_next, pass_data, pass_number, bytes_written_pass,
                               pos, passIO, lastIO>>
          [] y.kind = "stop" ->
                /\ Return(TRUE, NoneMsg)
                /\ UNCHANGED <<gen_next, pass_data, pass_number, bytes_written_pass,
                               pos, passIO, lastIO, faults>>
          [] y.kind = "yield" ->
                /\ gen_next' = gen_next + 1
                /\ pass_data' = y.data
                /\ pass_number' = gen_next + 1
                /\ IF cancel_check(cancelled)
                   THEN /\ Return(FALSE, NoneMsg)
                        /\ UNCHANGED <<bytes_written_pass, pos, passIO, lastIO, faults>>
                   ELSE IF targetPerm # "rw"
                   THEN /\ success' = FALSE
                        /\ result' = [result EXCEPT
                               !.passes_completed = gen_next + 1,
                               !.error_message = OSErrorPathMsg(result.device_path)]
                        /\ pc' = "decide"
                        /\ faults' = faults \cup {"open_write"}
                        /\ UNCHANGED <<bytes_written_pass, pos, passIO, lastIO>>
                   ELSE /\ result' = [result EXCEPT !.passes_completed = gen_next + 1]
                        /\ pos' = seek(0, 0)
                        /\ bytes_written_pass' = 0
                        /\ passIO' = 0
                        /\ lastIO' = 0
                        /\ pc' = "block"
                        /\ UNCHANGED <<success, faults>>
    /\ UNCHANGED <<front, certVars, engineVars, cancelled, op, post, branch,
                   bytes_written_total, targetVars, written, ended, cancelDuring>>

\* result.bytes_wiped after a block: bytes_written_total in _perform_wipe,
\* the pass's own bytes_written in _perform_file_wipe.
BytesWiped(o, total, inPass) ==
    IF o = "device" THEN total ELSE inPass

\* One turn of "while bytes_written_pass < result.total_bytes:" -- the cancel
\* check, the chunk, write(), the counters, the progress callback, flush()
\* and os.fsync().  Whatever raises is caught by the except of the function.
WriteBlock ==
    /\ pc = "block"
    /\ bytes_written_pass < result.total_bytes
    /\ IF cancel_check(cancelled)
       THEN /\ Return(FALSE, NoneMsg)
            /\ UNCHANGED <<bytes_written_pass, bytes_written_total, pos, content,
                           written, passIO, lastIO, log, faults>>
       ELSE LET remaining == result.total_bytes - bytes_written_pass
                chunk == Chunk(pass_data, block_size, remaining)
                n == Len(chunk)
            IN  \E io \in {"ok", "write_error", "sync_error"}, cb \in CallbackOutcome :
                  IF io = "write_error"
                  THEN /\ Return(FALSE, IOErrorMsg)
                       /\ faults' = faults \cup {"write"}
                       /\ UNCHANGED <<bytes_written_pass, bytes_written_total, pos,
                                      content, written, passIO, lastIO, log>>
                  ELSE /\ content' = WriteAt(content, pos, chunk)
                       /\ pos' = pos + n
                       /\ written' = written \cup
                              {<<pass_number, o>> : o \in pos..(pos + n - 1)}
                       /\ passIO' = passIO + n
                       /\ lastIO' = n
                       /\ bytes_written_pass' = bytes_written_pass + n
                       /\ bytes_written_total' = bytes_written_total + n
                       /\ LET wiped == BytesWiped(op, bytes_written_total + n,
                                                  bytes_written_pass + n)
                              wrote == [log EXCEPT !.blocks = @ + 1, !.bytes = @ + n]
                              called == IF progress_callback
                                        THEN [Invoked(wrote, wiped) EXCEPT
                                                 !.calls = @ + 1,
                                                 !.unsynced = wrote.bytes - log.synced]
                                        ELSE wrote
                          IN  IF cb # NoneMsg
                              THEN /\ result' = [result EXCEPT !.bytes_wiped = wiped,
                                                               !.error_message = cb]
                                   /\ success' = FALSE
                                   /\ pc' = "decide"
                                   /\ faults' = faults \cup {"callback"}
                                   /\ log' = called
                              ELSE IF io = "sync_error"
                              THEN /\ result' = [result EXCEPT !.bytes_wiped = wiped,
                                                               !.error_message = IOErrorMsg]
                                   /\ success' = FALSE
                                   /\ pc' = "decide"
                                   /\ faults' = faults \cup {"sync"}
                                   /\ log' = called
                              ELSE /\ result' = [result EXCEPT !.bytes_wiped = wiped]
                                   /\ log' = [called EXCEPT !.synced = @ + n]
                                   /\ UNCHANGED <<success, pc, faults>>
    /\ UNCHANGED <<front, certVars, engineVars, cancelled, op, post, branch, gen_next,
                   pass_data, pass_number, targetKind, targetPerm, ended, cancelDuring>>

\* The while loop ends (the pass ran to its end); "if pass_number >=
\* result.total_passes: break", then return True, or the next turn of the for.
PassEnd ==
    /\ pc = "block"
    /\ ~(bytes_written_pass < result.total_bytes)
    /\ ended' = [n |-> pass_number, bytes |-> passIO, last |-> lastIO]
    /\ IF pass_limit_reached(pass_number, result.total_passes)
       THEN Return(TRUE, NoneMsg)
       ELSE /\ pc' = "next_pass"
            /\ UNCHANGED <<result, success>>
    /\ UNCHANGED <<front, certVars, engineVars, cancelled, op, post, branch, gen_next,
                   pass_data, pass_number, bytes_written_pass, bytes_written_total, pos,
                   targetVars, written, passIO, lastIO, log, faults, cancelDuring>>

(***************************************************************************)
(* wipe_device / wipe_file after the write loop.                           *)
(***************************************************************************)
\* "if success and not self._cancelled: ... elif self._cancelled: ... else:"
\* -- the test reads the flag; the branch's assignments come after it.
Decide ==
    /\ pc = "decide"
    /\ branch' = FinalStatus(success, cancelled)
    /\ pc' = "set_status"
    /\ UNCHANGED <<front, certVars, engineVars, cancelled, result, op, post, success,
                   gen_next, pass_data, pass_number, bytes_written_pass,
                   bytes_written_total, pos, targetVars, historyVars, faults,
                   cancelDuring>>

\* result.status = WipeStatus.COMPLETED / CANCELLED / FAILED
SetStatus ==
    /\ pc = "set_status"
    /\ result' = [result EXCEPT !.status = branch]
    /\ pc' = "set_end_time"
    /\ UNCHANGED <<front, certVars, engineVars, cancelled, frameVars, targetVars,
                   historyVars, faults, cancelDuring>>

\* A faulty variant: the removal (the format) is not conditional.
AfterCompletedWithoutTest ==
    IF op = "device" /\ verify_wipe THEN "verify"
    ELSE "post"

\* The step after the status of a completed wipe is final: verification
\* (wipe_device only), then quick format / file removal when asked for.
AfterCompleted ==
    IF op = "device" /\ verify_wipe THEN "verify"
    ELSE IF post THEN "post"
    ELSE "final_notify"

\* result.end_time = datetime.now()
SetEndTime ==
    /\ pc = "set_end_time"
    /\ result' = [result EXCEPT !.end_time = TRUE]
    /\ pc' = IF result.status = "completed" THEN AfterCompleted ELSE "final_notify"
    /\ UNCHANGED <<front, certVars, engineVars, cancelled, frameVars, targetVars,
                   historyVars, faults, cancelDuring>>

\* result.verification_hash = self._verify_wipe_completion(device_path):
\* the digest of the target's content, or "" when reading it raises.
_verify_wipe_completion ==
    /\ pc = "verify"
    /\ \E raised \in BOOLEAN :
        /\ result' = [result EXCEPT !.verification_hash =
                         IF raised THEN <<"">> ELSE Sha256(content)]
        /\ log' = IF raised THEN log ELSE ReadFrom(Opened(log))
    /\ pc' = IF post THEN "post" ELSE "final_notify"
    /\ UNCHANGED <<front, certVars, engineVars, cancelled, frameVars, targetVars,
                   ioVars, faults, cancelDuring>>

\* self._quick_format(device_path): the format tool runs, or fails with
\* CalledProcessError (ignored), or subprocess.run raises something else
\* (the tool is missing), which reaches the handler of wipe_device.
_quick_format ==
    /\ pc = "post" /\ op = "device"
    /\ \E out \in {"formatted", "CalledProcessError", "FileNotFoundError"} :
        /\ content' = IF out = "formatted" /\ Len(content) > 0
                      THEN [content EXCEPT ![1] = "fs"]
                      ELSE content
        /\ IF out = "FileNotFoundError"
           THEN /\ result' = Handler(FormatToolMsg)
                /\ faults' = faults \cup {"format"}
           ELSE UNCHANGED <<result, faults>>
    /\ pc' = "final_notify"
    /\ UNCHANGED <<front, certVars, engineVars, cancelled, frameVars, targetKind,
                   targetPerm, historyVars, cancelDuring>>

\* if remove_file: os.remove(file_path) -- an OSError reaches the handler of
\* wipe_file.
RemoveFile ==
    /\ pc = "post" /\ op = "file"
    /\ \E raised \in BOOLEAN :
        IF raised
        THEN /\ result' = Handler(OSErrorPathMsg(result.device_path))
             /\ faults' = faults \cup {"remove"}
             /\ UNCHANGED targetVars
        ELSE /\ targetKind' = "missing"
             /\ content' = <<>>
             /\ UNCHANGED <<targetPerm, result, faults>>
    /\ pc' = "final_notify"
    /\ UNCHANGED <<front, certVars, engineVars, cancelled, frameVars, historyVars,
                   cancelDuring>>

\* self._update_progress(result); return result -- outside the try: what the
\* callback raises leaves the call.
FinalNotify ==
    /\ pc = "final_notify"
    /\ \E cb \in CallbackOutcome :
        /\ pc' = IF cb = NoneMsg THEN "returned" ELSE "raised"
        /\ faults' = IF cb = NoneMsg THEN faults ELSE faults \cup {"callback"}
    /\ log' = IF progress_callback THEN Invoked(log, result.bytes_wiped) ELSE log
    /\ UNCHANGED <<front, certVars, engineVars, cancelled, result, frameVars,
                   targetVars, ioVars, cancelDuring>>

Next ==
    \/ cancel_operation
    \/ wipe_device
    \/ wipe_file
    \/ ValidateDevice
    \/ ValidateFile
    \/ SizeDevice
    \/ SizeFile
    \/ NotifyStart
    \/ OpenDevice
    \/ NextPassDevice
    \/ NextPassFile
    \/ WriteBlock
    \/ PassEnd
    \/ Decide
    \/ SetStatus
    \/ SetEndTime
    \/ _verify_wipe_completion
    \/ _quick_format
    \/ RemoveFile
    \/ FinalNotify

Spec ==
    Init /\ [][Next]_vars

\* A step of the thread that runs wipe_device / wipe_file.
EngineStep ==
    \/ ValidateDevice
    \/ ValidateFile
    \/ SizeDevice
    \/ SizeFile
    \/ NotifyStart
    \/ OpenDevice
    \/ NextPassDevice
    \/ NextPassFile
    \/ WriteBlock
    \/ PassEnd
    \/ Decide
    \/ SetStatus
    \/ SetEndTime
    \/ _verify_wipe_completion
    \/ _quick_format
    \/ RemoveFile
    \/ FinalNotify

\* The thread of the call keeps running: every system call and every
\* callback comes back (returning or raising) and the next statement runs.
SpecLive ==
    Init /\ [][Next]_vars /\ WF_vars(EngineStep)

(***************************************************************************)
(* CertificateGenerator: construction, generate_certificate,               *)
(* verify_certificate, and the caller changing the certificate it holds.   *)
(***************************************************************************)
\* The WipeResults handed to generate_certificate: a new one, a running one,
\* and the ones a wipe of a MaxSize-byte target with dod_3_pass returns.
WipeResults ==
    LET new == NewResult(TargetPath, "dod_3_pass")
        running == [new EXCEPT !.status = "in_progress",
                               !.total_bytes = MaxSize,
                               !.total_passes = _get_pass_count("dod_3_pass")]
        done == [running EXCEPT !.status = "completed",
                                !.end_time = TRUE,
                                !.bytes_wiped = MaxSize,
                                !.passes_completed = running.total_passes]
    IN  {new, running, done,
         [done EXCEPT !.verification_hash = <<"">>],
         [done EXCEPT !.verification_hash = Sha256(Block("random", MaxSize))],
         [new EXCEPT !.status = "completed", !.end_time = TRUE,
                     !.total_passes = running.total_passes,
                     !.passes_completed = running.total_passes],
         [new EXCEPT !.status = "failed",
                     !.error_message = FileNotFoundMsg(TargetPath)],
         [running EXCEPT !.status = "failed", !.end_time = TRUE,
                         !.passes_completed = 1,
                         !.error_message = IOErrorMsg],
         [running EXCEPT !.status = "cancelled", !.end_time = TRUE,
                         !.passes_completed = 1]}

\* CertificateGenerator(private_key_path): load the key when the path is
\* given and exists, else generate one; what loading raises leaves __init__.
CertificateGenerator ==
    /\ generator = "none"
    /\ \E path \in KeyPaths :
        /\ private_key_path' = path
        /\ IF PathGivenAndExists(path)
           THEN LET loaded == _load_private_key(path)
                IN  IF loaded.raised
                    THEN /\ generator' = "raised"
                         /\ UNCHANGED <<private_key, public_key>>
                    ELSE /\ private_key' = loaded.value
                         /\ public_key' = PublicKeyOf(loaded.value)
                         /\ generator' = "ready"
           ELSE /\ private_key' = _generate_private_key({other.private_key})
                /\ public_key' = PublicKeyOf(_generate_private_key({other.private_key}))
                /\ generator' = "ready"
    /\ UNCHANGED <<front, wipeVars, wipe_result, cert_call, certificate, tampered,
                   verdicts, other>>

\* The body of generate_certificate(wipe_result, device_info) of a generator
\* whose private key is key, for one salt and one token_hex draw.  What
\* _sign_data raises leaves the call and no certificate is returned.
generate_certificate_for(key, r, device_info, salt, random_part) ==
    LET cert_id == _generate_certificate_id(random_part)
        cert_data == WipeCertificate(r, cert_id, device_info)
        cert_hash == hexdigest(json_dumps(cert_dict_for_hash(cert_data)))
        signature == _sign_data(key, cert_hash, salt)
    IN  /\ wipe_result' = r
        /\ IF signature.raised
           THEN /\ cert_call' = "raised"
                /\ UNCHANGED <<certificate, tampered, verdicts>>
           ELSE /\ cert_call' = "returned"
                /\ certificate' =
                       [cert_data EXCEPT
                           !.certificate_hash = cert_hash,
                           !.digital_signature = hex(signature.value)]
                /\ tampered' = {}
                /\ verdicts' = <<>>

\* generate_certificate(wipe_result, device_info): the whole call.  The call
\* does not read the certificate the caller holds, so taking it only while
\* that one is untouched leaves out no reachable state.
generate_certificate ==
    /\ generator = "ready"
    /\ tampered = {} /\ verdicts = <<>>
    /\ \E r \in WipeResults, device_info \in DeviceInfos, salt \in Salts,
          random_part \in TokenHex :
        generate_certificate_for(private_key, r, device_info, salt, random_part)
    /\ UNCHANGED <<front, wipeVars, other, private_key_path, generator, private_key,
                   public_key>>

\* verify_certificate(certificate): the whole call.
verify_certificate ==
    /\ generator = "ready"
    /\ cert_call = "returned"
    /\ Len(verdicts) < MaxVerifies
    /\ verdicts' = Append(verdicts, verify_certificate_outcome(certificate, public_key))
    /\ certificate' = AfterVerify(certificate)
    /\ UNCHANGED <<front, wipeVars, other, private_key_path, generator, private_key,
                   public_key, wipe_result, cert_call, tampered>>

\* A value of the field's type that generate_certificate never puts there.
Different(f, old) ==
    IF f \in {"bytes_wiped", "device_size_bytes", "passes_completed",
              "wipe_duration_seconds"}
    THEN old + 1 + MaxSize
    ELSE IF f = "certificate_id" THEN <<"BW", "now", "changed">>
    ELSE IF f \in {"device_serial", "device_model", "verification_hash"}
    THEN <<"changed">>
    ELSE "changed"

\* The caller assigns a different value to one data field of the
\* certificate (WipeCertificate is a plain, mutable dataclass).
ChangeDataField ==
    /\ cert_call = "returned"
    /\ tampered \cap DataFields = {}
    /\ \E f \in DataFields \cap DOMAIN certificate :
        /\ certificate' = [certificate EXCEPT ![f] = Different(f, @)]
        /\ tampered' = tampered \cup {f}
    /\ verdicts' = <<>>
    /\ UNCHANGED <<front, wipeVars, other, private_key_path, generator, private_key,
                   public_key, wipe_result, cert_call>>

\* The caller assigns a different certificate_hash: the same digest in upper
\* case, the digest of the fields as they are now, or "".
ChangeCertificateHash ==
    /\ cert_call = "returned"
    /\ "certificate_hash" \in (DOMAIN certificate) \ tampered
    /\ \E text \in {[certificate.certificate_hash EXCEPT !.spelling = "upper"],
                    hexdigest(json_dumps(cert_dict_for_hash(certificate))),
                    EmptyText} :
        /\ text # certificate.certificate_hash
        /\ certificate' = [certificate EXCEPT !.certificate_hash = text]
    /\ tampered' = tampered \cup {"certificate_hash"}
    /\ verdicts' = <<>>
    /\ UNCHANGED <<front, wipeVars, other, private_key_path, generator, private_key,
                   public_key, wipe_result, cert_call>>

\* The caller assigns a different digital_signature: the same digits in
\* upper case, text that is not hex, "", or the hex of a signature made with
\* somebody else's key over the certificate_hash as it is now.
ChangeDigitalSignature ==
    /\ cert_call = "returned"
    /\ "digital_signature" \in (DOMAIN certificate) \ tampered
    /\ "certificate_hash" \in DOMAIN certificate
    /\ \E text \in {[certificate.digital_signature EXCEPT !.spelling = "upper"],
                    [certificate.digital_signature EXCEPT !.spelling = "not_hex"],
                    hex(EmptyBytes),
                    hex([signer |-> [kind |-> "rsa", origin |-> "elsewhere"],
                         data |-> certificate.certificate_hash,
                         salt |-> "salt_a"])} :
        /\ text # certificate.digital_signature
        /\ certificate' = [certificate EXCEPT !.digital_signature = text]
    /\ tampered' = tampered \cup {"digital_signature"}
    /\ verdicts' = <<>>
    /\ UNCHANGED <<front, wipeVars, other, private_key_path, generator, private_key,
                   public_key, wipe_result, cert_call>>

\* CertificateGenerator(private_key_path) once more: a second instance, with
\* a key pair of its own.
CertificateGenerator_other ==
    /\ other.generator = "none"
    /\ \E path \in KeyPaths :
        IF PathGivenAndExists(path)
        THEN LET loaded == _load_private_key(path)
             IN  IF loaded.raised
                 THEN other' = [other EXCEPT !.generator = "raised",
                                             !.private_key_path = path]
                 ELSE other' = [other EXCEPT !.generator = "ready",
                                             !.private_key_path = path,
                                             !.private_key = loaded.value,
                                             !.public_key = PublicKeyOf(loaded.value)]
        ELSE other' = [other EXCEPT
                          !.generator = "ready",
                          !.private_key_path = path,
                          !.private_key = _generate_private_key({private_key}),
                          !.public_key = PublicKeyOf(_generate_private_key({private_key}))]
    /\ UNCHANGED <<front, wipeVars, private_key_path, generator, private_key,
                   public_key, wipe_result, cert_call, certificate, tampered,
                   verdicts>>

\* verify_certificate(certificate) of the second instance, on the
\* certificate the caller holds.
verify_certificate_other ==
    /\ other.generator = "ready"
    /\ cert_call = "returned"
    /\ Len(other.verdicts) < MaxVerifies
    /\ other' = [other EXCEPT !.verdicts =
                     Append(@, verify_certificate_outcome(certificate, other.public_key))]
    /\ certificate' = AfterVerify(certificate)
    /\ UNCHANGED <<front, wipeVars, private_key_path, generator, private_key,
                   public_key, wipe_result, cert_call, tampered, verdicts>>

CertNext ==
    \/ CertificateGenerator
    \/ generate_certificate
    \/ verify_certificate
    \/ ChangeDataField
    \/ ChangeCertificateHash
    \/ ChangeDigitalSignature

\* No wipe runs: the engine stands idle on a missing target.
CertInit ==
    /\ Init
    /\ block_size = 1
    /\ ~progress_callback
    /\ ~verify_wipe
    /\ targetKind = "missing"

SpecCert ==
    CertInit /\ [][CertNext]_vars

\* Two generators and the certificates of the first, as issued.
PairNext ==
    \/ CertificateGenerator
    \/ generate_certificate
    \/ verify_certificate
    \/ CertificateGenerator_other
    \/ verify_certificate_other

SpecPair ==
    CertInit /\ [][PairNext]_vars

(***************************************************************************)
(* The front-ends: the wipe command of cli/main.py and the main window of  *)
(* gui/main_window.py, each driving one DataWiper and one                  *)
(* CertificateGenerator.  Saving the certificate to a file is left out.    *)
(***************************************************************************)
\* DeviceDetector.validate_device(...)['valid']: the path exists, opens for
\* reading and opens for writing.
validate_device ==
    targetKind # "missing" /\ targetPerm = "rw"

\* A faulty variant: everything that did not fail counts as a success.
shows_completed_unless_failed(r) ==
    r.status # "failed"

\* "if result.status.value == 'completed':" of the wipe command and
\* "if result.status == WipeStatus.COMPLETED:" of _wipe_completed.
shows_completed(r) ==
    r.status = "completed"

\* Neither front-end passes a device_info.
NoDeviceInfo ==
    [serial_number |-> <<>>, model |-> <<>>]

\* CertificateGenerator() without a key path: a fresh key pair.
NewGenerator ==
    /\ private_key_path' = "None"
    /\ private_key' = _generate_private_key({other.private_key})
    /\ public_key' = PublicKeyOf(_generate_private_key({other.private_key}))
    /\ generator' = "ready"
    /\ UNCHANGED other

\* The wipe command up to the engine call: validate the path, DataWiper with
\* a progress callback, then wipe_file(path, pattern) for a regular file
\* (remove_file defaults to True) and wipe_device(path, pattern) otherwise.
\* An invalid path ends the command with an error and exit code 1.
wipe ==
    /\ front.kind = "none" /\ pc = "idle" /\ generator = "none"
    /\ \E option \in BOOLEAN :
        IF validate_device
        THEN /\ front' = [kind |-> "cli", certificate |-> option, shown |-> "none"]
             /\ Call(IF targetKind = "file" THEN "file" ELSE "device")
             /\ result'.pattern \in WipePattern
             /\ post' = (targetKind = "file")
        ELSE /\ front' = [kind |-> "cli", certificate |-> option, shown |-> "error"]
             /\ UNCHANGED <<wipeVars, certVars>>

\* The wipe command after the engine returned ("# Show results"): success
\* and, with --certificate, CertificateGenerator() and
\* generate_certificate(result); or "Wipe failed!" and exit code 1.
wipe_show_results ==
    /\ front.kind = "cli" /\ front.shown = "none" /\ pc = "returned"
    /\ IF shows_completed(result)
       THEN /\ front' = [front EXCEPT !.shown = "completed"]
            /\ IF front.certificate
               THEN /\ NewGenerator
                    /\ \E salt \in Salts, random_part \in TokenHex :
                           generate_certificate_for(_generate_private_key({other.private_key}), result,
                                                    NoDeviceInfo, salt, random_part)
               ELSE UNCHANGED certVars
       ELSE /\ front' = [front EXCEPT !.shown = "failed"]
            /\ UNCHANGED certVars
    /\ UNCHANGED wipeVars

\* BitWipersGUI.__init__: self.certificate_generator =
\* CertificateGenerator(); the "generate certificate" box is ticked or not.
BitWipersGUI ==
    /\ front.kind = "none" /\ pc = "idle" /\ generator = "none"
    /\ \E option \in BOOLEAN :
        front' = [kind |-> "gui", certificate |-> option, shown |-> "none"]
    /\ NewGenerator
    /\ UNCHANGED <<wipeVars, wipe_result, cert_call, certificate, tampered, verdicts>>

\* _start_wipe: a new DataWiper with the window's callback, a pattern of the
\* enumeration, and the worker thread's call of wipe_file(path, pattern) or
\* wipe_device(path, pattern, quick_format).
_start_wipe ==
    /\ front.kind = "gui" /\ front.shown = "none" /\ pc = "idle"
    /\ \E o \in {"device", "file"} :
        /\ Call(o)
        /\ result'.pattern \in WipePattern
        /\ o = "file" => post'
    /\ UNCHANGED front

\* _cancel_wipe: "if self.current_wiper: self.current_wiper.cancel_operation()"
_cancel_wipe ==
    /\ front.kind = "gui" /\ pc # "idle"
    /\ cancel_operation

\* _wipe_completed(result): success and, when the box is ticked,
\* _generate_certificate(result); or "Wipe cancelled"; or "Wipe failed".
_wipe_completed ==
    /\ front.kind = "gui" /\ front.shown = "none" /\ pc = "returned"
    /\ IF shows_completed(result)
       THEN /\ front' = [front EXCEPT !.shown = "completed"]
            /\ IF front.certificate
               THEN /\ \E salt \in Salts, random_part \in TokenHex :
                           generate_certificate_for(private_key, result,
                                                    NoDeviceInfo, salt, random_part)
                    /\ UNCHANGED <<private_key_path, generator, private_key,
                                   public_key, other>>
               ELSE UNCHANGED certVars
       ELSE /\ front' = [front EXCEPT !.shown =
                            IF result.status = "cancelled" THEN "cancelled"
                            ELSE "failed"]
            /\ UNCHANGED certVars
    /\ UNCHANGED wipeVars

\* _wipe_error(str(e)): what left wipe_device / wipe_file as an exception.
_wipe_error ==
    /\ front.kind = "gui" /\ front.shown = "none" /\ pc = "raised"
    /\ front' = [front EXCEPT !.shown = "error"]
    /\ UNCHANGED <<wipeVars, certVars>>

FrontNext ==
    \/ wipe
    \/ wipe_show_results
    \/ BitWipersGUI
    \/ _start_wipe
    \/ _cancel_wipe
    \/ _wipe_completed
    \/ _wipe_error
    \/ ValidateDevice
    \/ ValidateFile
    \/ SizeDevice
    \/ SizeFile
    \/ NotifyStart
    \/ OpenDevice
    \/ NextPassDevice
    \/ NextPassFile
    \/ WriteBlock
    \/ PassEnd
    \/ Decide
    \/ SetStatus
    \/ SetEndTime
    \/ _verify_wipe_completion
    \/ _quick_format
    \/ RemoveFile
    \/ FinalNotify

\* Both front-ends give the DataWiper a progress callback and leave the
\* block size at its default.
FrontInit ==
    /\ Init
    /\ progress_callback
    /\ block_size = 1

SpecFront ==
    FrontInit /\ [][FrontNext]_vars

(***************************************************************************)
(* Properties.                                                             *)
(***************************************************************************)
\* The byte offsets pass p has written.
OffsetsOf(p) ==
    {w[2] : w \in {x \in written : x[1] = p}}

\* The engine met a target that is missing or cannot be opened.
Unavailable ==
    faults \cap {"missing", "open_read", "open_write"} # {}

C2_CompletedMeansEveryPassCoveredTarget ==
    result.status = "completed" =>
        /\ result.passes_completed = result.total_passes
        /\ \A p \in 1..result.total_passes :
             \A o \in 0..(result.total_bytes - 1) : <<p, o>> \in written

\* C2 witness: a three-pass wipe of a 3-byte target in blocks of 2 returned
\* completed.
C2_Witness ==
    /\ pc = "returned"
    /\ result.status = "completed"
    /\ result.pattern = "dod_3_pass"
    /\ result.total_bytes = 3
    /\ block_size = 2

\* C3 (as claimed): once the status of the call's result is completed, failed
\* or cancelled, no later step of the call changes it.
C3_TerminalStatusNeverChanges ==
    [][(Active /\ result.status \in Terminal) => result'.status = result.status]_vars

\* C4 (as claimed), for calls in which nothing raises: if cancel_operation ran
\* while the status was in_progress, the returned result is cancelled, has
\* end_time set and bytes_wiped <= total_bytes * passes_completed.
C4_CancelWhileInProgressEndsCancelled ==
    (pc = "returned" /\ cancelDuring /\ faults = {}) =>
        /\ result.status = "cancelled"
        /\ result.end_time
        /\ result.bytes_wiped <= result.total_bytes * result.passes_completed

\* C5 (as claimed): within one wipe call bytes_wiped never decreases.
C5_BytesWipedNeverDecreases ==
    [][Active => result'.bytes_wiped >= result.bytes_wiped]_vars

\* C6 (as claimed): when the engine met a missing or unopenable target, the
\* returned result is failed, its error_message names the target (and for
\* wipe_file contains 'not found'), and nothing was written.
C6_UnavailableTargetFailsNamingIt ==
    (pc = "returned" /\ Unavailable) =>
        /\ result.status = "failed"
        /\ NamesTarget(result.error_message, result.device_path)
        /\ op = "file" => ContainsNotFound(result.error_message)
        /\ written = {}

\* C6 (amended): a target that is missing or cannot be opened is never
\* written to and its wipe never becomes completed.  When validation rejects
\* it, the returned result is failed and the error_message names the target
\* (for wipe_file it contains 'not found').  When it passes validation and
\* the open for writing fails, the returned result is failed, or cancelled
\* (only when the cancel flag is set), and the error_message names the target
\* without containing 'not found'.
C6_UnavailableTargetNeverWritten ==
    /\ (targetPerm # "rw" \/ Unavailable) =>
        /\ written = {}
        /\ result.status # "completed"
        /\ \A i \in 1..Len(content) : content[i] = "orig"
    /\ (pc = "returned" /\ faults \cap {"missing", "open_read"} # {}) =>
        /\ result.status = "failed"
        /\ NamesTarget(result.error_message, result.device_path)
        /\ op = "file" => ContainsNotFound(result.error_message)
    /\ (pc = "returned" /\ "open_write" \in faults) =>
        /\ result.status \in {"failed", "cancelled"}
        /\ ~cancelled => result.status = "failed"
        /\ NamesTarget(result.error_message, result.device_path)
        /\ ~ContainsNotFound(result.error_message)

\* C6 witness: wipe_file returned failed for a file that exists but whose
\* open for writing failed.
C6_Witness ==
    /\ pc = "returned"
    /\ op = "file"
    /\ "open_write" \in faults
    /\ result.status = "failed"

\* C7: a wipe asked for with a scheme outside the eight supported ones never
\* becomes completed and never writes to the target; when it returns, its
\* status is failed, or cancelled (only when the cancel flag is set).
C7_UnsupportedSchemeFailsWithoutWriting ==
    (pc # "idle" /\ result.pattern \notin WipePattern) =>
        /\ result.status # "completed"
        /\ written = {}
        /\ \A i \in 1..Len(content) : content[i] = "orig"
        /\ pc = "returned" =>
             /\ result.status \in {"failed", "cancelled"}
             /\ ~cancelled => result.status = "failed"

\* C7 witness: the generator raised for the unsupported scheme and the call
\* returned failed.
C7_Witness ==
    /\ pc = "returned"
    /\ result.pattern = UnsupportedPattern
    /\ "unsupported" \in faults
    /\ result.status = "failed"

\* C8 (as claimed): a result returned with status failed has a non-empty
\* error_message and has end_time set.
C8_FailedHasMessageAndEndTime ==
    (pc = "returned" /\ result.status = "failed") =>
        /\ NonEmptyMsg(result.error_message)
        /\ result.end_time

\* C9 (as claimed), for calls that are not cancelled on a target that holds
\* data: when the size query of wipe_device raised, the returned result is
\* failed and nothing was written.
C9_UnknownSizeFails ==
    (pc = "returned" /\ op = "device" /\ "size" \in faults /\ ~cancelled
        /\ Len(content) > 0) =>
        /\ result.status = "failed"
        /\ written = {}

\* C10 (as claimed): no exception leaves a wipe call.
C10_NoExceptionEscapes ==
    pc # "raised"

\* C11: a call on a zero-byte target with a supported scheme that returns
\* without having been cancelled and without any step of it having raised
\* has status completed, passes_completed = total_passes, bytes_wiped = 0 and
\* progress_percent = 0, and handed no byte to write().
C11_EmptyTargetCompletesWithoutWriting ==
    (pc = "returned" /\ ~cancelled /\ faults = {}
        /\ result.pattern \in WipePattern /\ result.total_bytes = 0) =>
        /\ result.status = "completed"
        /\ result.passes_completed = result.total_passes
        /\ result.total_passes = _get_pass_count(result.pattern)
        /\ result.bytes_wiped = 0
        /\ progress_percent(result) = 0
        /\ written = {}
        /\ content = <<>>

\* nist_purge on a 0-byte target: completed with passes_completed = 3.
C11_Witness ==
    /\ pc = "returned" /\ ~cancelled /\ faults = {}
    /\ result.pattern = "nist_purge" /\ result.total_bytes = 0
    /\ result.status = "completed"
    /\ result.passes_completed = 3

\* C12 (as claimed): when a wipe of a non-empty target with zero_fill or
\* one_fill has returned completed and the target was left as written (no
\* removal, no format), bytes_wiped > 0, the target has the size the engine
\* measured, and every byte of it is 0x00 (zero_fill) or 0xFF (one_fill).
C12_FillLeavesOnlyTheFillByte ==
    (pc = "returned" /\ result.status = "completed" /\ ~post
        /\ result.pattern \in {"zero_fill", "one_fill"} /\ Len(content) > 0) =>
        /\ result.bytes_wiped > 0
        /\ Len(content) = result.total_bytes
        /\ \A i \in 1..Len(content) : content[i] = InfiniteFill(result.pattern)

\* C13: the declared pass count of every supported scheme is the one of the
\* table, the engine stores it in total_passes, the generator of the scheme
\* (looked at when the engine takes the count) yields a whole block for each
\* of that many next() calls, the generators of dod_3_pass, dod_7_pass,
\* nist_purge and gutmann end right after them, and the engine never draws
\* more blocks than the count.
C13_DeclaredPassCountsAndYields ==
    result.pattern \in WipePattern =>
        LET p == result.pattern
            table == [zero_fill |-> 1, one_fill |-> 1, random |-> 1,
                      dod_3_pass |-> 3, dod_7_pass |-> 7, gutmann |-> 35,
                      nist_clear |-> 1, nist_purge |-> 3]
        IN  /\ _get_pass_count(p) = table[p]
            /\ result.status = "in_progress" => result.total_passes = table[p]
            /\ pc = "size" =>
                   /\ \A k \in 1..table[p] :
                          /\ get_pattern_data(p, block_size, k).kind = "yield"
                          /\ Len(get_pattern_data(p, block_size, k).data) = block_size
                   /\ p \in {"dod_3_pass", "dod_7_pass", "nist_purge", "gutmann"} =>
                          get_pattern_data(p, block_size, table[p] + 1).kind = "stop"
            /\ gen_next <= table[p]

\* A gutmann wipe that drew all 35 blocks and completed.
C13_Witness ==
    /\ pc = "returned" /\ result.pattern = "gutmann"
    /\ result.status = "completed"
    /\ gen_next = 35 /\ result.passes_completed = 35

\* The data fields of the certificate the caller holds.
DataPart ==
    [f \in DataFields |-> certificate[f]]

\* C14: the certificate generate_certificate returned for a completed
\* WipeResult, unchanged, makes verify_certificate of the same generator
\* return True, at every call.
C14_RoundTripVerifies ==
    (cert_call = "returned" /\ tampered = {}
        /\ wipe_result.status = "completed") =>
        /\ verify_certificate_outcome(certificate, public_key) = Returned(TRUE)
        /\ \A i \in 1..Len(verdicts) : verdicts[i] = Returned(TRUE)

\* A certificate of a completed wipe was verified and the answer was True.
C14_Witness ==
    /\ cert_call = "returned" /\ tampered = {}
    /\ wipe_result.status = "completed"
    /\ Len(verdicts) > 0
    /\ verdicts[1] = Returned(TRUE)

\* C15 (as claimed): once exactly one field of an issued certificate has
\* been given a different value, verify_certificate returns False.
C15_AnySingleChangeFailsVerification ==
    (cert_call = "returned" /\ Cardinality(tampered) = 1) =>
        verify_certificate_outcome(certificate, public_key) = Returned(FALSE)

\* C16: a verify_certificate call leaves the certificate and the generator's
\* key pair as they were, and all the calls made on one certificate value
\* returned the same thing.
C16_VerifyChangesNothingAndRepeats ==
    [][verify_certificate =>
        /\ certificate' = certificate
        /\ private_key' = private_key
        /\ public_key' = public_key
        /\ \A i, j \in 1..Len(verdicts') : verdicts'[i] = verdicts'[j]]_vars

\* The same certificate value was verified twice.
C16_Witness ==
    /\ cert_call = "returned"
    /\ Len(verdicts) >= 2
    /\ verdicts[1] = verdicts[2]

\* C17 (as claimed): generate_certificate called with a pending or
\* in_progress WipeResult raises and returns no certificate.
C17_NonTerminalResultIsRejected ==
    (cert_call # "none" /\ wipe_result.status \in {"pending", "in_progress"}) =>
        cert_call = "raised"

\* C18: the certificate generate_certificate returned has all its fields,
\* its certificate_hash is the digest of the key-sorted serialization of
\* the fields other than certificate_hash and digital_signature, its
\* digital_signature is the hex of a signature of that digest text which
\* the generator's public key accepts, and bytes_wiped, passes_completed,
\* status and device_size_bytes are those of the WipeResult.
C18_IssuedCertificateIsHashedSignedAndCopied ==
    (cert_call = "returned" /\ tampered = {}) =>
        /\ DOMAIN certificate = FieldNames
        /\ certificate.certificate_hash = hexdigest(json_dumps(DataPart))
        /\ ~fromhex(certificate.digital_signature).raised
        /\ _verify_signature(public_key, certificate.certificate_hash,
                             fromhex(certificate.digital_signature).value)
        /\ certificate.bytes_wiped = wipe_result.bytes_wiped
        /\ certificate.passes_completed = wipe_result.passes_completed
        /\ certificate.status = wipe_result.status
        /\ certificate.device_size_bytes = wipe_result.total_bytes

\* A certificate issued for a cancelled wipe with a key loaded from a file.
C18_Witness ==
    /\ cert_call = "returned" /\ tampered = {}
    /\ private_key.origin = "file"
    /\ wipe_result.status = "cancelled"
    /\ certificate.status = "cancelled"

\* C19 (as claimed): a returned certificate has neither an empty
\* certificate_hash nor an empty digital_signature; with a key that cannot
\* sign, generate_certificate returns nothing; and a generator constructed
\* with a private-key path that cannot be loaded (nothing is there, or what
\* is there is not a key) never returns a certificate.
C19_KeyOrSigningFailureIssuesNothing ==
    /\ (cert_call = "returned" /\ tampered = {}) =>
          /\ certificate.certificate_hash # EmptyText
          /\ certificate.digital_signature # hex(EmptyBytes)
    /\ (cert_call # "none" /\ private_key.kind # "rsa") => cert_call = "raised"
    /\ private_key_path \in {"missing", "garbage"} => cert_call # "returned"

\* C20: verify_certificate does not raise on any certificate value: it
\* returns a boolean, and it returns False whenever the digest of the
\* certificate's data fields is not its certificate_hash.
C20_VerifyNeverRaises ==
    (generator = "ready" /\ cert_call = "returned") =>
        LET outcome == verify_certificate_outcome(certificate, public_key)
        IN  /\ ~outcome.raised
            /\ outcome.value \in BOOLEAN
            /\ certificate.certificate_hash # hexdigest(json_dumps(DataPart)) =>
                   outcome = Returned(FALSE)
            /\ \A i \in 1..Len(verdicts) : ~verdicts[i].raised

\* A certificate whose digital_signature is not hex was verified: False.
C20_Witness ==
    /\ cert_call = "returned"
    /\ tampered = {"digital_signature"}
    /\ certificate.digital_signature.spelling = "not_hex"
    /\ Len(verdicts) > 0
    /\ verdicts[1] = Returned(FALSE)

\* C21 (as claimed, for two certificates issued one after the other within
\* the same second): the certificate generate_certificate returns has a
\* certificate_id other than that of the certificate it returned before.
C21_CertificateIdsDiffer ==
    [][(cert_call = "returned" /\ tampered = {}
          /\ generate_certificate /\ cert_call' = "returned") =>
        certificate'.certificate_id # certificate.certificate_id]_vars

C24_CompletedCarriesTheContentHash ==
    (pc = "returned" /\ result.status = "completed") =>
        /\ verify_wipe => result.verification_hash \notin {<<>>, <<"">>}
        /\ (verify_wipe /\ ~post) => result.verification_hash = Sha256(content)
        /\ ~verify_wipe => result.verification_hash = <<>>

\* C26 (as claimed): once the status of the call's result is completed,
\* failed or cancelled, no later step changes any field of the result:
\* end_time, verification_hash, error_message, bytes_wiped and
\* passes_completed were final when the status was set.
C26_TerminalResultIsFinal ==
    [][(Active /\ result.status \in Terminal) => result' = result]_vars

\* C27: for every block size of the engine and every scheme of the table,
\* the k-th next() on get_pattern_data yields a block of exactly block_size
\* bytes, all of them the scheme's k-th fill (zero_fill 00 and one_fill FF at
\* every k; dod_3_pass 00, FF, random; dod_7_pass 00, FF, 92, 49, 24, 00,
\* random; nist_purge random, 00, random); the generators of the three
\* finite schemes stop at the next() after their last pass; and the block
\* the engine writes during its k-th pass is that k-th block.
C27_KthBlockCarriesKthFill ==
    LET table == [zero_fill |-> <<"00">>,
                  one_fill |-> <<"FF">>,
                  dod_3_pass |-> <<"00", "FF", "random">>,
                  dod_7_pass |-> <<"00", "FF", "92", "49", "24", "00", "random">>,
                  nist_purge |-> <<"random", "00", "random">>]
        finite == {"dod_3_pass", "dod_7_pass", "nist_purge"}
        fill(p, k) == IF p \in finite THEN table[p][k] ELSE table[p][1]
        last(p) == IF p \in finite THEN Len(table[p]) ELSE Len(table.dod_7_pass) + 1
        block(p, k) == [i \in 1..block_size |-> fill(p, k)]
    IN  /\ pc = "size" =>
               \A p \in DOMAIN table :
                   /\ \A k \in 1..last(p) :
                          /\ get_pattern_data(p, block_size, k).kind = "yield"
                          /\ get_pattern_data(p, block_size, k).data = block(p, k)
                          /\ Len(get_pattern_data(p, block_size, k).data) = block_size
                   /\ p \in finite =>
                          get_pattern_data(p, block_size, last(p) + 1).kind = "stop"
        /\ (pc = "block" /\ result.pattern \in DOMAIN table) =>
               /\ gen_next \in 1..last(result.pattern)
               /\ pass_data = block(result.pattern, gen_next)

\* The engine is writing the seventh pass of dod_7_pass, a random block of
\* two bytes, and the sixth pass left zeros on the target.
C27_Witness ==
    /\ pc = "block" /\ result.pattern = "dod_7_pass"
    /\ gen_next = 7 /\ block_size = 2
    /\ pass_data = <<"random", "random">>
    /\ content = <<"random", "random", "00">>

\* C28: in every state of a wipe progress_percent lies between 0 and 100: it
\* is 0 when total_bytes is 0, 100 as soon as bytes_wiped has reached
\* total_bytes (and stays 100 when later passes take bytes_wiped beyond it),
\* and otherwise the whole percents of bytes_wiped * 100 / total_bytes.
C28_ProgressPercentWithinBounds ==
    LET percent == progress_percent(result)
        wiped == result.bytes_wiped
        total == result.total_bytes
    IN  /\ percent \in 0..100
        /\ total = 0 => percent = 0
        /\ (total > 0 /\ wiped >= total) => percent = 100
        /\ (total > 0 /\ wiped < total) =>
               /\ percent * total <= wiped * 100
               /\ wiped * 100 < (percent + 1) * total

\* The second pass of a device wipe has taken bytes_wiped beyond total_bytes.
C28_Witness ==
    /\ op = "device" /\ pc = "block"
    /\ result.total_bytes = 3
    /\ result.bytes_wiped = 5
    /\ progress_percent(result) = 100

C30_CallbackSeesOnlySyncedBytes ==
    /\ pc = "block" => log.synced = log.bytes
    /\ log.unsynced = 0

\* C25: in both front-ends generate_certificate has been called only for
\* the engine's result and only when its status is completed, in which case
\* the front-end reported success; a result that is failed or cancelled is
\* reported as failed or cancelled once the front-end has handled it, and
\* no certificate exists for it.
C25_CertificateOnlyForCompleted ==
    /\ cert_call # "none" =>
           /\ wipe_result = result
           /\ result.status = "completed"
           /\ front.shown = "completed"
    /\ front.shown = "completed" => result.status = "completed"
    /\ (pc = "returned" /\ result.status \in {"failed", "cancelled"}) =>
           /\ front.shown \in {"none", "failed", "cancelled"}
           /\ cert_call = "none"
           /\ certificate = NoCertificate

\* The main window, its certificate box ticked, handled the result of a wipe
\* that was cancelled after it had written: it reported the cancellation
\* and issued nothing.
C25_Witness ==
    /\ front = [kind |-> "gui", certificate |-> TRUE, shown |-> "cancelled"]
    /\ pc = "returned" /\ result.status = "cancelled"
    /\ written # {}
    /\ cert_call = "none" /\ certificate = NoCertificate

\* C31: a pass starts at offset 0 and every write() of the pass lands right
\* behind the bytes the pass has written so far: at the head of a block the
\* handle stands at bytes_written_pass and the pass has written the offsets
\* 0..pos-1, each once; a write() covers pos..pos'-1 with pos' > pos and none
\* of them written by this pass before; so a pass that ran to its end wrote
\* the offsets 0..total_bytes-1 in order, total_bytes bytes in all.
C31_PassWritesContiguousIncreasingOffsets ==
    /\ [](pc = "block" =>
             /\ pos = bytes_written_pass
             /\ passIO = pos
             /\ OffsetsOf(pass_number) = 0..(pos - 1))
    /\ [][log'.blocks # log.blocks =>
             /\ pos' > pos
             /\ written' \ written = {<<pass_number, o>> : o \in pos..(pos' - 1)}
             /\ OffsetsOf(pass_number) \cap pos..(pos' - 1) = {}
             /\ passIO' = passIO + (pos' - pos)]_vars
    /\ [][ended'.n # ended.n =>
             /\ ended'.bytes = result.total_bytes
             /\ ended'.bytes = Cardinality(OffsetsOf(ended'.n))]_vars

\* The second pass of a device wipe of three bytes has written its first two
\* blocks of one byte, at the offsets 0 and 1.
C31_Witness ==
    /\ pc = "block" /\ op = "device"
    /\ pass_number = 2 /\ block_size = 1 /\ result.total_bytes = 3
    /\ pos = 2
    /\ OffsetsOf(2) = {0, 1}

\* C32: in every state passes_completed is at most total_passes, no step of
\* a running call lowers it, and with a generator that never ends
\* (zero_fill, one_fill, random, nist_clear) the engine draws no more blocks
\* than the declared number of passes and leaves the loop after them.
C32_PassesCompletedBoundedAndGrowing ==
    /\ [](/\ result.passes_completed <= result.total_passes
          /\ result.pattern \in {"zero_fill", "one_fill", "random", "nist_clear"} =>
                /\ gen_next <= _get_pass_count(result.pattern)
                /\ (pc = "decide" /\ success) =>
                       result.passes_completed = _get_pass_count(result.pattern))
    /\ [][Active => result'.passes_completed >= result.passes_completed]_vars

\* A zero_fill wipe wrote its one pass and returned completed, the generator
\* asked once.
C32_Witness ==
    /\ pc = "returned" /\ result.pattern = "zero_fill"
    /\ result.status = "completed"
    /\ result.passes_completed = 1 /\ result.total_passes = 1
    /\ gen_next = 1
    /\ result.total_bytes = 3 /\ OffsetsOf(1) = {0, 1, 2}

\* C33 (as claimed): every call of wipe_device or wipe_file, whatever the
\* scheme, eventually returns a result whose status is completed, failed or
\* cancelled (every write() here fails or takes its whole chunk).
C33_EveryCallReturnsTerminal ==
    (pc = "validate") ~> (pc = "returned" /\ result.status \in Terminal)

\* The last pass that handed offset o to write(), 0 when none did.
LastPassAt(o) ==
    LET passes == {p \in 0..result.passes_completed : p = 0 \/ <<p, o>> \in written}
    IN  CHOOSE p \in passes : \A q \in passes : q <= p

\* C34: no step changes the target's size unless it is the removal of the
\* file after a completed wipe, and when a call returns cancelled or failed
\* every byte of the target is the fill of the last pass that wrote its
\* offset, or the original byte where no pass wrote: the interrupted pass's
\* bytes stay, and behind them what the pass before (or nothing) left.
C34_InterruptedWipeRollsNothingBack ==
    /\ [][Len(content') # Len(content) =>
             (pc = "post" /\ op = "file" /\ result.status = "completed")]_vars
    /\ []((pc = "returned" /\ result.status \in {"cancelled", "failed"}) =>
             \A o \in 0..(Len(content) - 1) :
                 content[o + 1] =
                     IF LastPassAt(o) = 0
                     THEN "orig"
                     ELSE get_pattern_data(result.pattern, block_size,
                                           LastPassAt(o)).data[1])

\* A dod_3_pass wipe of three bytes was cancelled after the first block of
\* its second pass: FF at offset 0, the 00 of the first pass behind it.
C34_Witness ==
    /\ pc = "returned" /\ result.status = "cancelled"
    /\ result.pattern = "dod_3_pass" /\ block_size = 1
    /\ result.passes_completed = 2
    /\ content = <<"FF", "00", "00">>

\* C35 (as claimed): when the unsupported-pattern error is raised, the call
\* has not opened the target, has read nothing from it and has written
\* nothing to it.
C35_UnsupportedSchemeRejectedBeforeAnyIO ==
    "unsupported" \in faults =>
        /\ log.opens = 0
        /\ log.reads = 0
        /\ written = {}

\* C36 (as claimed): when a call returns, with any terminal status,
\* passes_completed is the number of passes that ran to their end, each of
\* them having written all total_bytes bytes; a pass cut short by a cancel
\* or by an error is not among them.
C36_PassesCompletedCountsWholePasses ==
    (pc = "returned" /\ result.status \in Terminal) =>
        /\ result.passes_completed = ended.n
        /\ \A p \in 1..result.passes_completed :
               OffsetsOf(p) = 0..(result.total_bytes - 1)

\* The call got past the validation of its target.
PassedValidation ==
    faults \cap {"missing", "open_read"} = {}

\* C37 (as claimed): a call begun with the cancel flag already set that
\* passes validation and returns has status cancelled and has written
\* nothing.
C37_StaleFlagCancelsEveryLaterCall ==
    (pc = "returned" /\ log.preset /\ PassedValidation) =>
        /\ result.status = "cancelled"
        /\ written = {}

\* C37 (amended): the flag is never reset, and a call begun with it set that
\* passes validation and returns has written nothing and is cancelled,
\* unless a step before the write loop raised (the size query of wipe_file
\* or the progress callback), in which case it is failed.
C37_StaleFlagCancelsUnlessAStepRaised ==
    /\ [][cancelled => cancelled']_vars
    /\ []((pc = "returned" /\ log.preset /\ PassedValidation) =>
             /\ written = {}
             /\ log.blocks = 0
             /\ \A i \in 1..Len(content) : content[i] = "orig"
             /\ result.status =
                    IF (op = "file" /\ "size" \in faults) \/ "callback" \in faults
                    THEN "failed"
                    ELSE "cancelled")

\* cancel_operation ran before wipe_device was called on a writable target
\* of three bytes: the call returned cancelled and the bytes are untouched.
C37_Witness ==
    /\ pc = "returned" /\ log.preset /\ op = "device"
    /\ targetPerm = "rw" /\ result.total_bytes = 3
    /\ result.status = "cancelled"
    /\ content = <<"orig", "orig", "orig">>

\* C38: when the status is decided with the cancel flag set, the decision is
\* cancelled, whether the write loop returned True (every pass complete) or
\* False (a write error among the causes), and a call decided cancelled
\* returns cancelled.
C38_CancelBeforeDecisionWins ==
    /\ [][(pc = "decide" /\ pc' = "set_status" /\ cancelled) =>
              branch' = "cancelled"]_vars
    /\ []((pc = "returned" /\ branch = "cancelled") =>
              /\ result.status = "cancelled"
              /\ result.end_time)

\* cancel_operation ran between the last block of the only pass of a
\* zero_fill wipe and the decision: the target holds zeros everywhere and
\* the result is cancelled.
C38_Witness ==
    /\ pc = "returned" /\ success /\ cancelDuring
    /\ result.status = "cancelled" /\ result.pattern = "zero_fill"
    /\ result.total_bytes = 3 /\ ended.n = result.total_passes
    /\ OffsetsOf(1) = {0, 1, 2}
    /\ content = <<"00", "00", "00">>

\* C39: the only step that makes the target disappear is the os.remove of a
\* wipe_file call whose status is completed and whose remove_file is set;
\* a wipe_file call on a regular file that returns cancelled or failed, or
\* that was called with remove_file false, leaves the file in place.
C39_FileRemovedOnlyAfterCompleted ==
    /\ [][targetKind' # targetKind =>
              /\ pc = "post" /\ op = "file" /\ post
              /\ result.status = "completed"
              /\ targetKind = "file" /\ targetKind' = "missing"]_vars
    /\ []((/\ pc = "returned" /\ op = "file"
           /\ "missing" \notin faults
           /\ result.status \in {"cancelled", "failed"} \/ ~post) =>
              targetKind = "file")

\* wipe_file with remove_file set was cancelled after it had written a
\* block: the file is still there.
C39_Witness ==
    /\ pc = "returned" /\ op = "file" /\ post
    /\ result.status = "cancelled" /\ log.blocks > 0
    /\ targetKind = "file" /\ Len(content) = 3

\* C40: what verify_certificate of a second generator returns for a
\* certificate as the first one issued it is True exactly when the two hold
\* the same public key, so it is False whenever their key pairs differ; and
\* two generators that loaded no key (no path, or a path where nothing is)
\* hold different key pairs, each generated for it.
C40_OtherKeyPairRejects ==
    /\ [][other'.verdicts # other.verdicts =>
              other'.verdicts[Len(other'.verdicts)] =
                  Returned(other.public_key = public_key)]_vars
    /\ []((/\ generator = "ready" /\ other.generator = "ready"
           /\ ~PathGivenAndExists(private_key_path)
           /\ ~PathGivenAndExists(other.private_key_path)) =>
              /\ private_key # other.private_key
              /\ public_key # other.public_key
              /\ private_key.kind = "rsa" /\ other.private_key.kind = "rsa")

\* Two generators constructed without a key path; the second one returned
\* False for a certificate of the first, which the first accepts.
C40_Witness ==
    /\ generator = "ready" /\ private_key_path = "None"
    /\ other.generator = "ready" /\ other.private_key_path = "None"
    /\ cert_call = "returned" /\ wipe_result.status = "completed"
    /\ other.verdicts = <<Returned(FALSE)>>
    /\ verdicts = <<Returned(TRUE)>>

====
